---- MODULE Spec2Model ----
(***************************************************************************)
(* A model of persona_generator.py: the pipeline main() runs               *)
(* (connect_to_reddit, fetch_user_data, analyze_data, generate_report with *)
(* its call of get_ai_summary), the data it moves and the files it writes. *)
(*                                                                         *)
(* Representation.  A Python str is a sequence of text units (TLA+         *)
(* strings); "" is << >>, + and f-strings are \o, slicing counts units.    *)
(* None is the value None below.  A float score is an integer number of    *)
(* hundredths; a mean is the exact fraction [num, den] (den > 0), compared *)
(* by cross-multiplication.                                                *)
(***************************************************************************)
EXTENDS Integers, Sequences, FiniteSets, TLC

VARIABLES
    pc,              \* where main() is: a stage of the pipeline, or how it ended
    CLIENT_ID,       \* module globals read from the environment (lines 18-21)
    CLIENT_SECRET,
    USER_AGENT,
    GEMINI_API_KEY,
    user_data,       \* what fetch_user_data returned (main's `data`)
    analysis,        \* what analyze_data returned
    response,        \* the generation service's answer to the request, while observed
    ai_summary,      \* what get_ai_summary returned
    report,          \* the content of <username>_persona.txt, or None
    stdout,          \* the messages printed so far
    provider_calls,  \* requests sent to the account-data provider
    gen_requests,    \* requests sent to the text-generation service
    uncaught         \* the exception that left main(), or None

vars == << pc, CLIENT_ID, CLIENT_SECRET, USER_AGENT, GEMINI_API_KEY, user_data,
           analysis, response, ai_summary, report, stdout, provider_calls,
           gen_requests, uncaught >>

----------------------------------------------------------------------------
(* Bounds of the model. *)

\* comments and posts of a snapshot in the pipeline specification (Spec)
MaxComments == 2
MaxPosts == 2
\* comments and posts of a snapshot in the sentiment specification (SpecSentiment)
MaxSentComments == 3
MaxSentPosts == 1
\* comments and posts of a snapshot in the ranking specification (SpecRank)
MaxRankComments == 4
MaxRankPosts == 3
\* comments, and posts, of a snapshot in the summary specification (SpecSummary)
MaxSummaryItems == 1

(* Program constants. *)
DATA_LIMIT == 100
TopN == 5
PositiveAbove == 5
NegativeBelow == -5
ExampleChars == 300

----------------------------------------------------------------------------
(* Python values *)

None == "None"
\* None where a dict or another object is expected
NoValue == [none |-> TRUE]
\* a str local that is not bound yet
Unbound == <<"<unbound>">>

\* bool(v) of an environment value: None and "" are false
Truthy(v) == v \notin {None, ""}

\* what os.getenv can give: unset, set to the empty string, set
EnvValues == {None, "", "set"}

Min(a, b) == IF a < b THEN a ELSE b

\* s[:n]
Slice(s, n) == SubSeq(s, 1, Min(n, Len(s)))

SeqsUpTo(S, n) == UNION {[1..k -> S] : k \in 0..n}

\* sum() of a sequence of integers
RECURSIVE Sum(_)
Sum(s) == IF s = << >> THEN 0 ELSE Head(s) + Sum(Tail(s))

\* sep.join(parts)
RECURSIVE Join(_, _)
Join(sep, parts) ==
    IF parts = << >> THEN << >>
    ELSE IF Len(parts) = 1 THEN parts[1]
    ELSE parts[1] \o sep \o Join(sep, Tail(parts))

----------------------------------------------------------------------------
(* The account-data provider's items *)

USERNAME == <<"alice">>

\* subreddits of the pipeline and sentiment specifications
Subreddits == {"python", "chess"}
\* subreddits of the ranking specification: those commented in, those posted in
RankCommentSubreddits == {"a", "b", "c", "d"}
RankPostSubreddits == {"d", "e", "f"}

\* comment bodies, each with the compound score VADER gives it (hundredths)
Lexicon ==
    << [body |-> <<"awful">>,  compound |-> -6],
       [body |-> <<"bad">>,    compound |-> -5],
       [body |-> <<"the">>,    compound |-> 0],
       [body |-> <<"fine">>,   compound |-> 5],
       [body |-> <<"good">>,   compound |-> 6] >>

Bodies == {Lexicon[i].body : i \in DOMAIN Lexicon}

\* sia.polarity_scores(text)['compound']
polarity_compound(text) ==
    LET i == CHOOSE j \in DOMAIN Lexicon : Lexicon[j].body = text
    IN  Lexicon[i].compound

Comments(subs, bodies) == [subreddit : subs, body : bodies]
Submissions(subs, selftexts) == [subreddit : subs, title : {<<"title">>}, selftext : selftexts]

\* comment.permalink
permalink(c) == <<"/r/", c.subreddit, "/comments/1">>

----------------------------------------------------------------------------
(* analyze_data *)

\* subreddit_counter[name] += 1 on a Counter, kept as its items in insertion order
CounterIncrement(counter, name) ==
    IF \E i \in DOMAIN counter : counter[i][1] = name
    THEN [i \in DOMAIN counter |->
            IF counter[i][1] = name THEN <<name, counter[i][2] + 1>> ELSE counter[i]]
    ELSE Append(counter, <<name, 1>>)

RECURSIVE CountAll(_, _)
CountAll(counter, items) ==
    IF items = << >> THEN counter
    ELSE CountAll(CounterIncrement(counter, Head(items).subreddit), Tail(items))

\* the loops of lines 59-64: comments first, then submissions
subreddit_counter(data) == CountAll(CountAll(<< >>, data.comments), data.submissions)

\* RanksBefore of an ascending sort reversed: equal counts come out in reverse order
RanksBefore_Reversed(items, i, j) ==
    \/ items[i][2] > items[j][2]
    \/ items[i][2] = items[j][2] /\ i > j

\* whether item i comes before item j in sorted(items, key=count, reverse=True),
\* which keeps the order of items with equal counts
RanksBefore(items, i, j) ==
    \/ items[i][2] > items[j][2]
    \/ items[i][2] = items[j][2] /\ i < j

\* Counter.most_common(n): heapq.nlargest(n, items, key=count), which is
\* sorted(items, key=count, reverse=True)[:n]
most_common(items, n) ==
    LET pos(i) == 1 + Cardinality({j \in DOMAIN items : RanksBefore(items, j, i)})
        sorted == [p \in DOMAIN items |-> items[CHOOSE i \in DOMAIN items : pos(i) = p]]
    IN  Slice(sorted, n)

\* the text a submission adds to the corpus (lines 65-68)
SubmissionText(s) ==
    IF s.selftext # << >> THEN s.title \o <<" ">> \o s.selftext ELSE s.title

all_text_content(data) ==
    [i \in DOMAIN data.comments |-> data.comments[i].body]
    \o [i \in DOMAIN data.submissions |-> SubmissionText(data.submissions[i])]

sentiment_scores(data) ==
    [i \in DOMAIN data.comments |-> polarity_compound(data.comments[i].body)]

\* sum(scores) / len(scores) if scores else 0
average_sentiment(scores) ==
    IF scores # << >> THEN [num |-> Sum(scores), den |-> Len(scores)]
    ELSE [num |-> 0, den |-> 1]

\* analyze_data dividing the sum of the scores by the number of all items
analyze_data_AllItems(data) ==
    [ most_active_subreddits |-> most_common(subreddit_counter(data), TopN),
      average_sentiment      |->
          IF data.comments # << >>
          THEN [num |-> Sum(sentiment_scores(data)),
                den |-> Len(data.comments) + Len(data.submissions)]
          ELSE [num |-> 0, den |-> 1],
      raw_text               |-> Join(<<"\n">>, all_text_content(data)) ]

analyze_data(data) ==
    [ most_active_subreddits |-> most_common(subreddit_counter(data), TopN),
      average_sentiment      |-> average_sentiment(sentiment_scores(data)),
      raw_text               |-> Join(<<"\n">>, all_text_content(data)) ]

----------------------------------------------------------------------------
(* What the text-generation service can answer *)

\* JSON values, as response.json() gives them
JNull == [k |-> "null"]
JNum(n) == [k |-> "num", v |-> n]
JStr(s) == [k |-> "str", v |-> s]
JList(items) == [k |-> "list", v |-> items]
JDict(m) == [k |-> "dict", v |-> m]
EmptyDict == JDict([x \in {} |-> x])

\* a body of the documented shape, candidates[0].content.parts[0].text = t
Part(t) == JDict([text |-> t])
Content(parts) == JDict([parts |-> parts])
Candidate(content) == JDict([content |-> content])
Body(candidates) == JDict([candidates |-> candidates])
BodyWithText(t) == Body(JList(<< Candidate(Content(JList(<< Part(t) >>))) >>))
BodyWithPart(p) == Body(JList(<< Candidate(Content(JList(<< p >>))) >>))
BodyWithParts(ps) == Body(JList(<< Candidate(Content(ps)) >>))
BodyWithContent(c) == Body(JList(<< Candidate(c) >>))
BodyWithCandidate(c) == Body(JList(<< c >>))

\* the body of an error answer
ErrorBody == JDict([error |-> JDict([code |-> JNum(400)])])

\* the JSON bodies the model draws from: the documented shape with the summary
\* text present, blank or padded, and the same shape cut short, emptied or
\* nulled at each element of the path
JsonBodies ==
    << BodyWithText(JStr(<<"Curious", " ", "and", " ", "kind.">>)),
       BodyWithText(JStr(<<" ", "Curious.", "\n">>)),
       BodyWithText(JStr(<<" ">>)),
       BodyWithText(JStr(<< >>)),
       BodyWithText(JNull),
       BodyWithText(JNum(0)),
       BodyWithText(JNum(7)),
       BodyWithText(JList(<< >>)),
       BodyWithPart(EmptyDict),
       BodyWithPart(JDict([inlineData |-> JStr(<<"x">>)])),
       BodyWithPart(JNull),
       BodyWithPart(JStr(<< >>)),
       BodyWithParts(JList(<< >>)),
       BodyWithParts(EmptyDict),
       BodyWithParts(JNull),
       BodyWithParts(JStr(<< >>)),
       BodyWithContent(EmptyDict),
       BodyWithContent(JDict([role |-> JStr(<<"model">>)])),
       BodyWithContent(JNull),
       BodyWithContent(JList(<< >>)),
       BodyWithCandidate(EmptyDict),
       BodyWithCandidate(JDict([finishReason |-> JStr(<<"SAFETY">>)])),
       BodyWithCandidate(JNull),
       BodyWithCandidate(JList(<< >>)),
       Body(JList(<< >>)),
       Body(EmptyDict),
       Body(JNull),
       Body(JStr(<< >>)),
       EmptyDict,
       JDict([promptFeedback |-> JDict([blockReason |-> JStr(<<"SAFETY">>)])]),
       ErrorBody,
       JList(<< >>),
       JList(<< JStr(<<"candidates">>) >>),
       JStr(<<"candidates">>),
       JStr(<< >>),
       JNull,
       JNum(0) >>

NoResponse == [kind |-> "none"]
Raised(e) == [kind |-> "raised", exc |-> e]
Answer(status, text, body) == [kind |-> "response", status |-> status, json |-> text, body |-> body]

\* exceptions requests.post raises (no response was received)
TransportErrorList == <<"ConnectionError", "Timeout", "SSLError">>
TransportErrors == {TransportErrorList[i] : i \in DOMAIN TransportErrorList}
\* statuses for which raise_for_status raises HTTPError
ErrorStatusList == <<400, 403, 404, 429, 500, 503>>
\* what response.json() raises on a body that is no JSON: requests'
\* JSONDecodeError (a RequestException) from requests 2.27 on, a ValueError before
JsonErrorList == <<"JSONDecodeError", "ValueError">>

\* every outcome of requests.post(...)
Outcomes ==
    [i \in DOMAIN TransportErrorList |-> Raised(TransportErrorList[i])]
    \o [i \in DOMAIN JsonBodies |-> Answer(200, "json", JsonBodies[i])]
    \o [i \in DOMAIN ErrorStatusList |-> Answer(ErrorStatusList[i], "json", ErrorBody)]
    \o [i \in DOMAIN JsonErrorList |-> Answer(200, JsonErrorList[i], JNull)]

----------------------------------------------------------------------------
(* Evaluating Python expressions on JSON values: a result is a value or a    *)
(* raised exception                                                         *)

Ok(v) == [ok |-> TRUE, v |-> v]
Raise(e) == [ok |-> FALSE, exc |-> e]

\* r[key] for a string key
GetKey(r, key) ==
    IF ~r.ok THEN r
    ELSE CASE r.v.k = "dict" -> IF key \in DOMAIN r.v.v THEN Ok(r.v.v[key]) ELSE Raise("KeyError")
           [] OTHER -> Raise("TypeError")

\* r[0]
GetFirst(r) ==
    IF ~r.ok THEN r
    ELSE CASE r.v.k = "list" -> IF Len(r.v.v) > 0 THEN Ok(r.v.v[1]) ELSE Raise("IndexError")
           [] r.v.k = "str" -> IF Len(r.v.v) > 0 THEN Ok(JStr(<<r.v.v[1]>>)) ELSE Raise("IndexError")
           [] r.v.k = "dict" -> Raise("KeyError")
           [] OTHER -> Raise("TypeError")

\* key in v
Contains(v, key) ==
    CASE v.k = "dict" -> Ok(key \in DOMAIN v.v)
      [] v.k = "list" -> Ok(\E i \in DOMAIN v.v : v.v[i].k = "str" /\ v.v[i].v = <<key>>)
      [] v.k = "str" -> Ok(\E i \in DOMAIN v.v : v.v[i] = key)
      [] OTHER -> Raise("TypeError")

\* bool(v)
JTruthy(v) ==
    CASE v.k = "null" -> FALSE
      [] v.k = "num" -> v.v # 0
      [] v.k = "dict" -> DOMAIN v.v # {}
      [] OTHER -> Len(v.v) > 0

Whitespace == {" ", "\n", "\t"}

RECURSIVE LStrip(_)
LStrip(s) == IF s # << >> /\ Head(s) \in Whitespace THEN LStrip(Tail(s)) ELSE s

RECURSIVE RStrip(_)
RStrip(s) ==
    IF s # << >> /\ s[Len(s)] \in Whitespace THEN RStrip(SubSeq(s, 1, Len(s) - 1)) ELSE s

\* v.strip()
Strip(v) == IF v.k = "str" THEN Ok(RStrip(LStrip(v.v))) ELSE Raise("AttributeError")

\* result['candidates'][0]['content']['parts'][0]['text']
SummaryPath(result) ==
    GetKey(GetFirst(GetKey(GetKey(GetFirst(GetKey(Ok(result), "candidates")), "content"), "parts")), "text")

----------------------------------------------------------------------------
(* get_ai_summary *)

MSG_NO_KEY == <<"Can't generate an AI summary because the GOOGLE_API_KEY is missing from the .env file.">>
MSG_NO_SUMMARY == <<"The AI responded, but I couldn't find a summary in its answer.">>
MSG_NETWORK(e) == <<"Couldn't reach the AI. There might be a network issue. Error: ", e>>
MSG_FORMAT == <<"The AI's response was not in the format I expected.">>
MSG_UNEXPECTED(e) == <<"An unexpected error occurred while talking to the AI: ", e>>

\* response.raise_for_status()
RaisesForStatus(status) == 400 <= status /\ status < 600

\* the subclasses of requests.exceptions.RequestException among the exceptions raised
IsRequestException(e) == e \in TransportErrors \cup {"HTTPError", "JSONDecodeError"}

\* the try block, lines 93-101: the returned str, or the exception raised in it
TryBlock(outcome) ==
    IF outcome.kind = "raised" THEN Raise(outcome.exc)
    ELSE IF RaisesForStatus(outcome.status) THEN Raise("HTTPError")
    ELSE IF outcome.json # "json" THEN Raise(outcome.json)
    ELSE LET result == outcome.body
             has == Contains(result, "candidates")
             text == SummaryPath(result)
         IN  IF ~has.ok THEN has
             ELSE IF ~has.v THEN Ok(MSG_NO_SUMMARY)
             ELSE IF ~text.ok THEN text
             ELSE IF JTruthy(text.v) THEN Strip(text.v)
             ELSE Ok(MSG_NO_SUMMARY)

\* ExceptClauses without the last clause, except Exception: what the first two
\* clauses do not catch leaves the function
ExceptClauses_NoCatchAll(r) ==
    IF r.ok THEN r
    ELSE IF IsRequestException(r.exc) THEN Ok(MSG_NETWORK(r.exc))
    ELSE IF r.exc \in {"KeyError", "IndexError"} THEN Ok(MSG_FORMAT)
    ELSE r

\* ExceptClauses without the clause for KeyError and IndexError
ExceptClauses_NoShapeClause(r) ==
    IF r.ok THEN r
    ELSE IF IsRequestException(r.exc) THEN Ok(MSG_NETWORK(r.exc))
    ELSE Ok(MSG_UNEXPECTED(r.exc))

\* the except clauses, lines 103-108, in their order
ExceptClauses(r) ==
    IF r.ok THEN r
    ELSE IF IsRequestException(r.exc) THEN Ok(MSG_NETWORK(r.exc))
    ELSE IF r.exc \in {"KeyError", "IndexError"} THEN Ok(MSG_FORMAT)
    ELSE Ok(MSG_UNEXPECTED(r.exc))

\* RequestsSent with the key tested only after the request
RequestsSent_BeforeKeyTest(key) == 1

\* the requests one call sends, given the key: the early return of line 84
\* comes before requests.post, and nothing loops
RequestsSent(key) == IF ~Truthy(key) THEN 0 ELSE 1

\* get_ai_summary with the service answering `outcome`: what it returns or raises
get_ai_summary(key, outcome) ==
    IF ~Truthy(key) THEN Ok(MSG_NO_KEY) ELSE ExceptClauses(TryBlock(outcome))

----------------------------------------------------------------------------
(* generate_report *)

filename(username) == username \o <<"_persona.txt">>

top_subreddit(an) ==
    IF an.most_active_subreddits # << >> THEN an.most_active_subreddits[1][1] ELSE None

\* citation_comment taking the last matching comment
citation_comment_Last(data, top) ==
    LET hits == {i \in DOMAIN data.comments : data.comments[i].subreddit = top}
    IN  IF hits = {} THEN << >>
        ELSE << data.comments[CHOOSE i \in hits : \A j \in hits : i >= j] >>

\* next((c for c in comments if c.subreddit.display_name == top), None),
\* as << >> for None and <<c>> for a comment
citation_comment(data, top) ==
    LET hits == {i \in DOMAIN data.comments : data.comments[i].subreddit = top}
    IN  IF hits = {} THEN << >>
        ELSE << data.comments[CHOOSE i \in hits : \A j \in hits : i <= j] >>

\* tone with the bounds included in the outer bands
tone_Inclusive(score) ==
    IF score.num >= PositiveAbove * score.den THEN "Positive"
    ELSE IF score.num <= NegativeBelow * score.den THEN "Negative"
    ELSE "Neutral"

\* lines 125-127, on a mean in hundredths
tone(score) ==
    IF score.num > PositiveAbove * score.den THEN "Positive"
    ELSE IF score.num < NegativeBelow * score.den THEN "Negative"
    ELSE "Neutral"

\* lines 130-134
interests(an) ==
    IF an.most_active_subreddits = << >>
    THEN << <<"- Not enough activity to determine key interests.">> >>
    ELSE [i \in DOMAIN an.most_active_subreddits |->
            <<"- ", an.most_active_subreddits[i][1], " (based on ",
              ToString(an.most_active_subreddits[i][2]), " recent activities)">>]

\* lines 136-142: the example section, << >> when it is not written
example(data, an) ==
    LET top == top_subreddit(an)
        cite == citation_comment(data, top)
    IN  IF cite # << >>
        THEN << [ subreddit |-> top,
                  url       |-> <<"https://www.reddit.com">> \o permalink(cite[1]),
                  quote     |-> Slice(cite[1].body, ExampleChars) \o <<"...">> ] >>
        ELSE << >>

\* what the with block writes to the file
report_text(data, an, summary) ==
    [ file      |-> filename(data.username),
      header    |-> <<"USER PERSONA: u/">> \o data.username,
      bio       |-> summary,
      tone      |-> tone(an.average_sentiment),
      score     |-> an.average_sentiment,
      interests |-> interests(an),
      example   |-> example(data, an) ]

----------------------------------------------------------------------------
(* connect_to_reddit and fetch_user_data *)

\* the names the module binds at top level (imports, globals, functions)
ModuleNames ==
    {"praw", "os", "argparse", "requests", "Counter", "load_dotenv", "nltk",
     "SentimentIntensityAnalyzer", "CLIENT_ID", "CLIENT_SECRET", "USER_AGENT",
     "GEMINI_API_KEY", "DATA_LIMIT", "connect_to_reddit", "fetch_user_data",
     "analyze_data", "get_ai_summary", "generate_report", "main"}

\* the builtin names the handlers use
BuiltinNames == {"Exception", "KeyError", "IndexError", "LookupError"}

\* exceptions the provider's client raises while listing: prawcore's NotFound
\* for a name that does not resolve, others for network, auth and quota failures
ProviderErrors == {"NotFound", "Forbidden", "TooManyRequests", "RequestException"}

\* CredentialsMissing testing two of the three credentials
CredentialsMissing_TwoOnly == ~(Truthy(CLIENT_ID) /\ Truthy(CLIENT_SECRET))

\* not all([CLIENT_ID, CLIENT_SECRET, USER_AGENT])
CredentialsMissing == ~(Truthy(CLIENT_ID) /\ Truthy(CLIENT_SECRET) /\ Truthy(USER_AGENT))

\* the except clauses of fetch_user_data, lines 47-52, for an exception e raised
\* in its try block: the first clause evaluates the name NotFound, which raises
\* NameError when nothing binds it, and that leaves the function
FetchExcept(e) ==
    IF "NotFound" \notin ModuleNames \cup BuiltinNames
    THEN [raises |-> "NameError", prints |-> << >>]
    ELSE IF e = "NotFound"
    THEN [raises |-> None, prints |-> <<"Couldn't find anyone on Reddit with the username">>]
    ELSE [raises |-> None, prints |-> <<"Something went wrong while getting the data">>]

\* what fetch_user_data returns: the name and the two listings, each of at most
\* `limit` items, and in the model of at most maxc comments and maxp posts
Snapshots(comments, submissions, limit, maxc, maxp) ==
    [ username    : {USERNAME},
      comments    : SeqsUpTo(comments, Min(limit, maxc)),
      submissions : SeqsUpTo(submissions, Min(limit, maxp)) ]

PipelineSnapshots(limit) ==
    Snapshots(Comments(Subreddits, {<<"awful">>, <<"good">>}),
              Submissions(Subreddits, {<< >>, <<"text">>}), limit, MaxComments, MaxPosts)

SentimentSnapshots(limit) ==
    Snapshots(Comments({"python"}, Bodies),
              Submissions(Subreddits, {<< >>, <<"text">>}), limit, MaxSentComments, MaxSentPosts)

RankSnapshots(limit) ==
    Snapshots(Comments(RankCommentSubreddits, {<<"the">>}),
              Submissions(RankPostSubreddits, {<< >>}), limit, MaxRankComments, MaxRankPosts)

SummarySnapshots(limit) ==
    Snapshots(Comments({"python"}, {<<"awful">>, <<"good">>}),
              Submissions({"chess"}, {<<"text">>}), limit, MaxSummaryItems, MaxSummaryItems)

----------------------------------------------------------------------------
(* main: the pipeline, one action per step *)

Init ==
    /\ pc = "Idle"
    /\ CLIENT_ID \in EnvValues
    /\ CLIENT_SECRET \in EnvValues
    /\ USER_AGENT \in EnvValues
    /\ GEMINI_API_KEY \in EnvValues
    /\ user_data = NoValue
    /\ analysis = NoValue
    /\ response = NoResponse
    /\ ai_summary = Unbound
    /\ report = NoValue
    /\ stdout = << >>
    /\ provider_calls = 0
    /\ gen_requests = 0
    /\ uncaught = None

\* main parses its arguments and calls connect_to_reddit
Start ==
    /\ pc = "Idle"
    /\ pc' = "Connecting"
    /\ UNCHANGED << CLIENT_ID, CLIENT_SECRET, USER_AGENT, GEMINI_API_KEY, user_data, analysis,
                    response, ai_summary, report, stdout, provider_calls, gen_requests, uncaught >>

\* lines 25-27: a credential is missing, main gets None and returns
ConnectMissing ==
    /\ pc = "Connecting"
    /\ CredentialsMissing
    /\ stdout' = Append(stdout, "oops, I can't find the Reddit API details in the .env file.")
    /\ pc' = "Failed"
    /\ UNCHANGED << CLIENT_ID, CLIENT_SECRET, USER_AGENT, GEMINI_API_KEY, user_data, analysis,
                    response, ai_summary, report, provider_calls, gen_requests, uncaught >>

\* lines 29-33: praw.Reddit(...) is built (no request is sent), main calls fetch_user_data
ConnectOk ==
    /\ pc = "Connecting"
    /\ ~CredentialsMissing
    /\ stdout' = stdout \o <<"Alright, let's connect to Reddit...", "Success! We're connected to Reddit.",
                             "Now, let's see what we can find about u/">>
    /\ pc' = "Fetching"
    /\ UNCHANGED << CLIENT_ID, CLIENT_SECRET, USER_AGENT, GEMINI_API_KEY, user_data, analysis,
                    response, ai_summary, report, provider_calls, gen_requests, uncaught >>

\* lines 34-36: praw.Reddit(...) raises, main gets None and returns
ConnectRaises ==
    /\ pc = "Connecting"
    /\ ~CredentialsMissing
    /\ stdout' = stdout \o <<"Alright, let's connect to Reddit...", "Hmm, couldn't connect to Reddit.">>
    /\ pc' = "Failed"
    /\ UNCHANGED << CLIENT_ID, CLIENT_SECRET, USER_AGENT, GEMINI_API_KEY, user_data, analysis,
                    response, ai_summary, report, provider_calls, gen_requests, uncaught >>

\* lines 41-46: both listings arrive, main calls analyze_data (a dict with keys is true)
FetchOk ==
    /\ pc = "Fetching"
    /\ \E snapshot \in PipelineSnapshots(DATA_LIMIT) : user_data' = snapshot
    /\ provider_calls' = provider_calls + 2
    /\ stdout' = stdout \o <<"Got it. Found recent comments and posts.", "Okay, time to analyze this data...">>
    /\ pc' = "Aggregating"
    /\ UNCHANGED << CLIENT_ID, CLIENT_SECRET, USER_AGENT, GEMINI_API_KEY, analysis,
                    response, ai_summary, report, gen_requests, uncaught >>

\* the first or the second listing raises e: the except clauses decide what
\* happens, a message and None to main (which returns) or an exception out of main
FetchRaises ==
    /\ pc = "Fetching"
    /\ \E e \in ProviderErrors, listing \in {1, 2} :
         /\ provider_calls' = provider_calls + listing
         /\ stdout' = stdout \o FetchExcept(e).prints
         /\ uncaught' = FetchExcept(e).raises
         /\ pc' = IF FetchExcept(e).raises = None THEN "Failed" ELSE "Crashed"
    /\ UNCHANGED << CLIENT_ID, CLIENT_SECRET, USER_AGENT, GEMINI_API_KEY, user_data, analysis,
                    response, ai_summary, report, gen_requests >>

\* analyze_data returns, main calls generate_report, which calls get_ai_summary
Analyze ==
    /\ pc = "Aggregating"
    /\ analysis' = analyze_data(user_data)
    /\ stdout' = stdout \o <<"Analysis done.", "Putting it all together in a report",
                             "Asking the AI to write up a summary...">>
    /\ pc' = "Summarizing"
    /\ UNCHANGED << CLIENT_ID, CLIENT_SECRET, USER_AGENT, GEMINI_API_KEY, user_data,
                    response, ai_summary, report, provider_calls, gen_requests, uncaught >>

\* get_ai_summary runs with the service answering `outcome`; an exception it
\* raised would leave generate_report and main
SummarizeWith(outcome, seen) ==
    /\ pc = "Summarizing"
    /\ gen_requests' = gen_requests + RequestsSent(GEMINI_API_KEY)
    /\ LET r == get_ai_summary(GEMINI_API_KEY, outcome)
       IN  /\ ai_summary' = IF r.ok THEN r.v ELSE Unbound
           /\ uncaught' = IF r.ok THEN None ELSE r.exc
           /\ pc' = IF r.ok THEN "Rendering" ELSE "Crashed"
    /\ response' = IF RequestsSent(GEMINI_API_KEY) = 0 THEN NoResponse ELSE seen
    /\ UNCHANGED << CLIENT_ID, CLIENT_SECRET, USER_AGENT, GEMINI_API_KEY, user_data, analysis,
                    report, stdout, provider_calls >>

\* in the pipeline the response is a local of get_ai_summary, gone when it returns
Summarize == \E i \in DOMAIN Outcomes : SummarizeWith(Outcomes[i], NoResponse)

\* lines 119-144: the file is opened and written
RenderOk ==
    /\ pc = "Rendering"
    /\ report' = report_text(user_data, analysis, ai_summary)
    /\ stdout' = Append(stdout, "All done! The persona has been saved")
    /\ pc' = "Done"
    /\ UNCHANGED << CLIENT_ID, CLIENT_SECRET, USER_AGENT, GEMINI_API_KEY, user_data, analysis,
                    response, ai_summary, provider_calls, gen_requests, uncaught >>

\* line 119: open() raises OSError, which nothing catches
RenderRaises ==
    /\ pc = "Rendering"
    /\ uncaught' = "OSError"
    /\ pc' = "Crashed"
    /\ UNCHANGED << CLIENT_ID, CLIENT_SECRET, USER_AGENT, GEMINI_API_KEY, user_data, analysis,
                    response, ai_summary, report, stdout, provider_calls, gen_requests >>

Next ==
    \/ Start
    \/ ConnectMissing
    \/ ConnectOk
    \/ ConnectRaises
    \/ FetchOk
    \/ FetchRaises
    \/ Analyze
    \/ Summarize
    \/ RenderOk
    \/ RenderRaises

Spec == Init /\ [][Next]_vars

----------------------------------------------------------------------------
(* Specifications of the later stages alone, from the state main is in when  *)
(* fetch_user_data has returned `snapshot`                                  *)

Fetched(snapshots, keys) ==
    /\ pc = "Aggregating"
    /\ CLIENT_ID = "set"
    /\ CLIENT_SECRET = "set"
    /\ USER_AGENT = "set"
    /\ GEMINI_API_KEY \in keys
    /\ user_data \in snapshots
    /\ analysis = NoValue
    /\ response = NoResponse
    /\ ai_summary = Unbound
    /\ report = NoValue
    /\ stdout = <<"Alright, let's connect to Reddit...", "Success! We're connected to Reddit.",
                  "Now, let's see what we can find about u/",
                  "Got it. Found recent comments and posts.", "Okay, time to analyze this data...">>
    /\ provider_calls = 2
    /\ gen_requests = 0
    /\ uncaught = None

\* analyze_data on snapshots of many subreddits
InitRank == Fetched(RankSnapshots(DATA_LIMIT), {None})
NextRank == Analyze
SpecRank == InitRank /\ [][NextRank]_vars

\* analyze_data and generate_report on snapshots of many scores
InitSentiment == Fetched(SentimentSnapshots(DATA_LIMIT), {None})
NextSentiment == Analyze \/ Summarize \/ RenderOk \/ RenderRaises
SpecSentiment == InitSentiment /\ [][NextSentiment]_vars

\* get_ai_summary with the service's answer kept in view
SummarizeSeen == \E i \in DOMAIN Outcomes : SummarizeWith(Outcomes[i], Outcomes[i])
InitSummary == Fetched(SummarySnapshots(DATA_LIMIT), EnvValues)
NextSummary == Analyze \/ SummarizeSeen
SpecSummary == InitSummary /\ [][NextSummary]_vars

----------------------------------------------------------------------------
(* Vocabulary of the properties *)

Last(s) == s[Len(s)]

\* one of the three provider credentials is unset or empty
CredentialAbsent == \E c \in {CLIENT_ID, CLIENT_SECRET, USER_AGENT} : c = None \/ c = ""

\* fetch_user_data was called and gave main no snapshot
FetchFailed == provider_calls > 0 /\ user_data = NoValue /\ pc # "Fetching"

FetchDiagnostics ==
    {"Couldn't find anyone on Reddit with the username", "Something went wrong while getting the data"}

\* the stages of section 4.4's state machine, in order
StageOrder == <<"Idle", "Connecting", "Fetching", "Aggregating", "Summarizing", "Rendering", "Done">>
Stages == {StageOrder[i] : i \in DOMAIN StageOrder}
StageIndex(p) == CHOOSE i \in DOMAIN StageOrder : StageOrder[i] = p

\* get_ai_summary has returned
Summarized == pc \in {"Rendering", "Done"} \/ (pc = "Crashed" /\ uncaught = "OSError")

\* the subreddits of a snapshot's items in the order analyze_data meets them
SeenOrder(data) ==
    [i \in DOMAIN data.comments |-> data.comments[i].subreddit]
    \o [i \in DOMAIN data.submissions |-> data.submissions[i].subreddit]
Activity(data, sub) == Cardinality({i \in DOMAIN SeenOrder(data) : SeenOrder(data)[i] = sub})
FirstSeen(data, sub) ==
    CHOOSE i \in DOMAIN SeenOrder(data) :
        SeenOrder(data)[i] = sub /\ \A j \in 1..(i - 1) : SeenOrder(data)[j] # sub
SeenSubreddits(data) == {SeenOrder(data)[i] : i \in DOMAIN SeenOrder(data)}

\* where the path candidates[0].content.parts[0].text ends in a JSON body: at
\* its end ("end", with the value there), at an absent key, at an empty list, or
\* at a value of another kind than the path expects
PathSteps == <<"candidates", "0", "content", "parts", "0", "text">>
RECURSIVE Walk(_, _)
Walk(v, at) ==
    IF at > Len(PathSteps) THEN [stop |-> "end", at |-> at, v |-> v]
    ELSE IF PathSteps[at] = "0"
    THEN IF v.k # "list" THEN [stop |-> "other-kind", at |-> at, v |-> v]
         ELSE IF Len(v.v) = 0 THEN [stop |-> "empty-list", at |-> at, v |-> v]
         ELSE Walk(v.v[1], at + 1)
    ELSE IF v.k # "dict" THEN [stop |-> "other-kind", at |-> at, v |-> v]
         ELSE IF PathSteps[at] \notin DOMAIN v.v THEN [stop |-> "absent-key", at |-> at, v |-> v]
         ELSE Walk(v.v[PathSteps[at]], at + 1)

IsJsonAnswer(o) == o.kind = "response" /\ ~RaisesForStatus(o.status) /\ o.json = "json"

\* the answer carries a summary: the path ends at a non-empty str
HasSummary(o) ==
    /\ IsJsonAnswer(o)
    /\ Walk(o.body, 1).stop = "end"
    /\ Walk(o.body, 1).v.k = "str"
    /\ Walk(o.body, 1).v.v # << >>

\* an element of the path is missing or empty: a key is absent, candidates or
\* parts is an empty list, or the text is the empty str
SummaryMissing(o) ==
    /\ IsJsonAnswer(o)
    /\ \/ Walk(o.body, 1).stop \in {"absent-key", "empty-list"}
       \/ /\ Walk(o.body, 1).stop = "end"
          /\ Walk(o.body, 1).v.k = "str"
          /\ Walk(o.body, 1).v.v = << >>

\* the four classes of placeholder
IsNoKeyText(t) == t = MSG_NO_KEY
IsNetworkText(t) == Len(t) = 2 /\ t[1] = MSG_NETWORK("")[1]
IsMalformedText(t) == t \in {MSG_NO_SUMMARY, MSG_FORMAT}
IsUnexpectedText(t) == Len(t) = 2 /\ t[1] = MSG_UNEXPECTED("")[1]
PlaceholderClasses(t) ==
    {c \in {"no credential", "network", "malformed", "unexpected"} :
        \/ c = "no credential" /\ IsNoKeyText(t)
        \/ c = "network" /\ IsNetworkText(t)
        \/ c = "malformed" /\ IsMalformedText(t)
        \/ c = "unexpected" /\ IsUnexpectedText(t)}

----------------------------------------------------------------------------
(* The claims *)

\* C1 (as claimed): when fetch_user_data fails, for a name that does not resolve
\* or for any other provider failure, a diagnostic is printed, main gets no
\* snapshot and returns normally with no uncaught exception, and no report is written.
C1_FetchFailureHandled ==
    FetchFailed =>
        /\ pc = "Failed"
        /\ uncaught = None
        /\ Last(stdout) \in FetchDiagnostics
        /\ report = NoValue

\* C2 (as claimed): every step of a run moves one stage forward in the order
\* Idle, Connecting, Fetching, Aggregating, Summarizing, Rendering, Done, so no
\* stage is entered twice; the report is written only after the summarizer has
\* returned; and the only other way a run ends is Failed, entered only from
\* Connecting or Fetching and with no report written.
C2_ForwardOnly ==
    [][ /\ pc' # pc =>
            \/ pc \in Stages /\ pc' \in Stages /\ StageIndex(pc') = StageIndex(pc) + 1
            \/ pc' = "Failed" /\ pc \in {"Connecting", "Fetching"} /\ report' = NoValue
        /\ report' # report => ai_summary # Unbound ]_vars

\* C3: get_ai_summary never raises to generate_report: whatever the service
\* answered, no run ends with an exception out of the summarizer, the summary
\* is a str once the summarizer is past, the only thing that can still stop the
\* report is open() failing, and the report written carries that str as its bio.
C3_SummarizerNeverRaises ==
    /\ pc = "Crashed" => uncaught \in {"NameError", "OSError"}
    /\ (pc = "Crashed" /\ analysis # NoValue) => (uncaught = "OSError" /\ ai_summary # Unbound)
    /\ pc \in {"Rendering", "Done"} => (ai_summary # Unbound /\ uncaught = None)
    /\ pc = "Rendering" => ENABLED RenderOk
    /\ pc = "Done" => (report # NoValue /\ report.bio = ai_summary)

\* a run whose summarizer met a failure that only the last except clause
\* catches wrote its report all the same
C3_Witness ==
    /\ pc = "Done"
    /\ report.bio = MSG_UNEXPECTED("TypeError")

\* C4: one call of get_ai_summary sends no request when no API key is set,
\* and then returns the no-credential placeholder verbatim, and sends exactly
\* one request when a key is set, whatever the outcome; before the call none is sent.
C4_RequestCount ==
    /\ ~Summarized => gen_requests = 0
    /\ (Summarized /\ ~Truthy(GEMINI_API_KEY)) => (gen_requests = 0 /\ ai_summary = MSG_NO_KEY)
    /\ (Summarized /\ Truthy(GEMINI_API_KEY)) => (gen_requests = 1 /\ ai_summary # MSG_NO_KEY)

\* a keyed call whose one request failed in transport, and was not sent again
C4_Witness ==
    /\ pc = "Done"
    /\ Truthy(GEMINI_API_KEY)
    /\ gen_requests = 1
    /\ report.bio = MSG_NETWORK("Timeout")

\* C5: with any of the three provider credentials absent the run prints the
\* diagnostic and ends without a call to the provider or to the generation
\* service and without a report; with only the API key absent the run is not
\* stopped by it: the run that completes has fetched, aggregated and written the
\* report, whose bio is the no-credential placeholder and whose other sections
\* are those of the analysis.
C5_MissingConfiguration ==
    /\ CredentialAbsent =>
          /\ pc \in {"Idle", "Connecting", "Failed"}
          /\ provider_calls = 0 /\ gen_requests = 0 /\ report = NoValue /\ uncaught = None
          /\ pc = "Failed" => Last(stdout) = "oops, I can't find the Reddit API details in the .env file."
    /\ (~CredentialAbsent /\ ~Truthy(GEMINI_API_KEY)) =>
          /\ pc = "Failed" => (provider_calls = 0 /\ Last(stdout) = "Hmm, couldn't connect to Reddit.")
          /\ pc = "Done" =>
                /\ provider_calls = 2
                /\ analysis = analyze_data(user_data)
                /\ report.bio = MSG_NO_KEY
                /\ report.tone = tone(analysis.average_sentiment)
                /\ report.interests = interests(analysis)
                /\ report.example = example(user_data, analysis)

\* only the API key is absent, and the report is there with its sections
C5_Witness ==
    /\ pc = "Done"
    /\ GEMINI_API_KEY = None
    /\ report.bio = MSG_NO_KEY
    /\ report.example # << >>
    /\ Len(report.interests) = 2

\* C6 (as claimed): a placeholder names its cause as one of four classes, and an
\* answer in which an element of candidates[0].content.parts[0].text is missing
\* or empty gives the same placeholder whichever element that is.
C6_SamePlaceholderWhicheverElement ==
    pc = "Rendering" =>
        /\ ~HasSummary(response) => Cardinality(PlaceholderClasses(ai_summary)) = 1
        /\ SummaryMissing(response) =>
              \A i \in DOMAIN Outcomes :
                  SummaryMissing(Outcomes[i]) =>
                      get_ai_summary(GEMINI_API_KEY, Outcomes[i]) = Ok(ai_summary)

\* C6 (amended): every return that is not a summary is a placeholder of exactly
\* one of the four classes: the no-credential text without a key; the network
\* text when requests.post raised or the status is 400..599; and for an answer
\* with an element of the path missing or empty one of the two malformed-shape
\* texts, "couldn't find a summary" when the key candidates is absent or the
\* text is the empty str, "not in the format I expected" when candidates or
\* parts is an empty list or a key below candidates is absent.  An answer with
\* a summary returns its text stripped.
C6_PlaceholderByCause ==
    pc = "Rendering" =>
        /\ ~Truthy(GEMINI_API_KEY) => PlaceholderClasses(ai_summary) = {"no credential"}
        /\ Truthy(GEMINI_API_KEY) =>
              /\ HasSummary(response) => ai_summary = RStrip(LStrip(Walk(response.body, 1).v.v))
              /\ ~HasSummary(response) =>
                    /\ Cardinality(PlaceholderClasses(ai_summary)) = 1
                    /\ "no credential" \notin PlaceholderClasses(ai_summary)
              /\ (response.kind = "raised" \/ RaisesForStatus(response.status)) =>
                    PlaceholderClasses(ai_summary) = {"network"}
              /\ SummaryMissing(response) =>
                    LET w == Walk(response.body, 1)
                    IN  ai_summary = IF (w.stop = "absent-key" /\ w.at = 1) \/ w.stop = "end"
                                     THEN MSG_NO_SUMMARY
                                     ELSE MSG_FORMAT

\* an answer whose candidates list is empty gave the format text, not the text
\* an answer without the key candidates gives
C6_Witness ==
    /\ pc = "Rendering"
    /\ SummaryMissing(response)
    /\ Walk(response.body, 1).stop = "empty-list"
    /\ ai_summary = MSG_FORMAT

\* C7: most_active_subreddits counts each subreddit once per comment and once
\* per post in it, has at most 5 entries (all subreddits when there are fewer),
\* is in descending order of count with equal counts in first-seen order
\* (comments before posts, each in fetch order), and no subreddit left out has a
\* larger count than one that is in.
C7_TopSubreddits ==
    pc = "Summarizing" =>
        LET top == analysis.most_active_subreddits
            seen == SeenSubreddits(user_data)
            names == {top[i][1] : i \in DOMAIN top}
        IN  /\ Len(top) <= 5
            /\ Len(top) = Min(5, Cardinality(seen))
            /\ \A i \in DOMAIN top :
                  top[i][1] \in seen /\ top[i][2] = Activity(user_data, top[i][1])
            /\ \A i, j \in DOMAIN top :
                  i < j =>
                    \/ top[i][2] > top[j][2]
                    \/ /\ top[i][2] = top[j][2]
                       /\ FirstSeen(user_data, top[i][1]) < FirstSeen(user_data, top[j][1])
            /\ \A sub \in seen \ names : \A i \in DOMAIN top : Activity(user_data, sub) <= top[i][2]

\* six subreddits, one left out; the first entry was first seen among the posts
\* and after the others, and the next two are tied
C7_Witness ==
    /\ pc = "Summarizing"
    /\ Cardinality(SeenSubreddits(user_data)) = 6
    /\ Len(analysis.most_active_subreddits) = 5
    /\ FirstSeen(user_data, analysis.most_active_subreddits[1][1]) > Len(user_data.comments) + 1
    /\ analysis.most_active_subreddits[2][2] = analysis.most_active_subreddits[3][2]

\* C8: the report has the example section exactly when a comment belongs to
\* the top-ranked subreddit, and then shows the first such comment in fetch
\* order; with only posts in the top subreddit, or no subreddit, it has none.
C8_ExampleSection ==
    pc = "Done" =>
        LET top == analysis.most_active_subreddits
            comments == user_data.comments
            inTop == IF top = << >> THEN {}
                     ELSE {i \in DOMAIN comments : comments[i].subreddit = top[1][1]}
        IN  /\ report.example # << >> <=> inTop # {}
            /\ inTop # {} =>
                  LET first == CHOOSE i \in inTop : \A j \in inTop : i <= j
                  IN  /\ report.example[1].subreddit = top[1][1]
                      /\ report.example[1].url =
                            <<"https://www.reddit.com">> \o permalink(comments[first])
                      /\ report.example[1].quote = Slice(comments[first].body, 300) \o <<"...">>

\* the top subreddit holds only posts while there is a comment elsewhere: no example
C8_Witness ==
    /\ pc = "Done"
    /\ report.example = << >>
    /\ user_data.comments # << >>
    /\ Len(analysis.most_active_subreddits) = 2

\* C9: the tone of the report is Positive exactly when the mean is above 0.05,
\* Negative exactly when it is below -0.05 and Neutral otherwise, so at 0.05 and
\* at -0.05 it is Neutral; the mean is within [-1, 1].
C9_ToneBands ==
    pc = "Done" =>
        LET m == analysis.average_sentiment
        IN  /\ -100 * m.den <= m.num /\ m.num <= 100 * m.den
            /\ report.tone \in {"Positive", "Negative", "Neutral"}
            /\ report.tone = "Positive" <=> m.num > 5 * m.den
            /\ report.tone = "Negative" <=> m.num < -5 * m.den
            /\ (m.num = 5 * m.den \/ m.num = -5 * m.den) => report.tone = "Neutral"

\* a mean of exactly 0.05 over several comments, reported Neutral
C9_Witness ==
    /\ pc = "Done"
    /\ Len(user_data.comments) >= 2
    /\ analysis.average_sentiment.num = 5 * analysis.average_sentiment.den
    /\ report.tone = "Neutral"

\* C10: average_sentiment is exactly 0 without comments, posts or not, and
\* otherwise the sum of the comments' scores divided by their number; it is what
\* the snapshot without its posts gives, while the posts do add to the counts
\* and to the corpus.
C10_MeanOverComments ==
    analysis # NoValue =>
        LET comments == user_data.comments
            posts == user_data.submissions
            scores == [i \in DOMAIN comments |-> polarity_compound(comments[i].body)]
            m == analysis.average_sentiment
            alone == average_sentiment(sentiment_scores([user_data EXCEPT !.submissions = << >>]))
            top == analysis.most_active_subreddits
        IN  /\ m.den > 0
            /\ comments = << >> => m.num = 0
            /\ comments # << >> => m.num * Len(comments) = Sum(scores) * m.den
            /\ m.num * alone.den = alone.num * m.den
            /\ Sum([i \in DOMAIN top |-> top[i][2]]) = Len(comments) + Len(posts)
            /\ posts # << >> =>
                  analysis.raw_text # Join(<<"\n">>, [i \in DOMAIN comments |-> comments[i].body])

\* comments with a mean that is not 0, and a post beside them
C10_Witness ==
    /\ analysis # NoValue
    /\ Len(user_data.comments) >= 2
    /\ user_data.submissions # << >>
    /\ analysis.average_sentiment.num = 11
    /\ analysis.average_sentiment.den = 2

====
